---- MODULE Spec2Model ----
(***************************************************************************)
(* Model of weather.py: the script that fetches a Dark Sky forecast,       *)
(* loads the weather icons, lays the forecast out on a paletted canvas and *)
(* pushes it to an Inky wHAT e-paper display.                              *)
(*                                                                         *)
(*   Spec    the script itself (lines 119-157), one action per statement   *)
(*           group, with the helper functions it calls as operators.       *)
(*   SpecFn  lookup_icon and create_mask called on their own, on inputs    *)
(*           drawn from bounded sets.                                      *)
(***************************************************************************)
EXTENDS Integers, Sequences, FiniteSets, TLC

(***************************************************************************)
(* Program constants.                                                      *)
(***************************************************************************)
LARGE_FONT_SIZE == 20
MEDIUM_FONT_SIZE == 17
SMALL_FONT_SIZE == 15
SUMMARY_H == LARGE_FONT_SIZE * 2
FORECARST_COLUMNS == 3

\* Palette indices of the display (inky_display.WHITE, .BLACK, .RED).
WHITE == 0
BLACK == 1
RED == 2

\* Dimensions of the Inky wHAT panel (inky_display.WIDTH, .HEIGHT).
WHAT_WIDTH == 400
WHAT_HEIGHT == 300

\* Python's None, as returned by lookup_icon and used as a dictionary key.
None == "None"

(***************************************************************************)
(* Bounds of the model.                                                    *)
(***************************************************************************)
\* Largest width and height of a bitmap handed to create_mask on its own.
MaxSide == 2
\* The display widths tried are WHAT_WIDTH .. WHAT_WIDTH + WidthSpread.
WidthSpread == 2

(***************************************************************************)
(* icon_map and lookup_icon.                                               *)
(***************************************************************************)
\* The keys of icon_map in insertion order, the order "for icon in icon_map"
\* visits them.
icon_order == <<"snow", "rain", "cloud", "sun", "storm", "wind">>

icon_map ==
  [ snow  |-> <<"snow", "sleet">>,
    rain  |-> <<"rain">>,
    cloud |-> <<"fog", "cloudy", "partly-cloudy-day", "partly-cloudy-night">>,
    sun   |-> <<"clear-day", "clear-night">>,
    storm |-> <<>>,
    wind  |-> <<"wind">> ]

\* "icon_name in icon_map[icon]": membership in a Python list.
InList(v, list) == \E k \in 1..Len(list) : list[k] = v

RECURSIVE lookup_from(_, _)
lookup_from(icon_name, n) ==
  IF n > Len(icon_order) THEN None
  ELSE IF InList(icon_name, icon_map[icon_order[n]]) THEN icon_order[n]
  ELSE lookup_from(icon_name, n + 1)

\* A scan that starts one key too late.
lookup_icon_skip_first(icon_name) == lookup_from(icon_name, 2)

\* A scan that falls back on "cloud" when no list holds the code.
lookup_icon_or_cloud(icon_name) ==
  IF lookup_from(icon_name, 1) = None THEN "cloud" ELSE lookup_from(icon_name, 1)

lookup_icon(icon_name) == lookup_from(icon_name, 1)

(***************************************************************************)
(* create_mask.  A bitmap is [width, height, px], px a function from the   *)
(* coordinates <<x, y>> to the pixel value.                                *)
(***************************************************************************)
Coords(w, h) == (0..(w - 1)) \X (0..(h - 1))

\* Image.new("1", size): every pixel 0.
NewImage(w, h) == [width |-> w, height |-> h, px |-> [c \in Coords(w, h) |-> 0]]

putpixel(image, c, v) == [image EXCEPT !.px = [@ EXCEPT ![c] = v]]

\* The body of the inner loop at (x, y).
mask_pixel(source, mask, mask_image, x, y) ==
  LET p == source.px[<<x, y>>]
  IN  IF p \in mask THEN putpixel(mask_image, <<x, y>>, 255) ELSE mask_image

RECURSIVE mask_rows(_, _, _, _, _)
\* for y in range(h), from y on, in column x.
mask_rows(source, mask, mask_image, x, y) ==
  IF y >= source.height THEN mask_image
  ELSE mask_rows(source, mask, mask_pixel(source, mask, mask_image, x, y), x, y + 1)

RECURSIVE mask_columns(_, _, _, _)
\* for x in range(w), from x on.
mask_columns(source, mask, mask_image, x) ==
  IF x >= source.width THEN mask_image
  ELSE mask_columns(source, mask, mask_rows(source, mask, mask_image, x, 0), x + 1)

\* The test of line 63 negated.
create_mask_inverted(source, mask) ==
  mask_columns(source, (0..255) \ mask, NewImage(source.width, source.height), 0)

create_mask(source, mask) ==
  mask_columns(source, mask, NewImage(source.width, source.height), 0)

(***************************************************************************)
(* Arithmetic and dictionaries as Python evaluates them.                   *)
(***************************************************************************)
\* int(a / b) for b > 0: the quotient truncated towards zero.
int_div(a, b) == IF a >= 0 THEN a \div b ELSE -((-a) \div b)

\* d[k] raises KeyError unless k is a key of d.
HasKey(d, k) == k \in DOMAIN d

\* d[k] = v on a dictionary.
SetItem(d, k, v) == [x \in (DOMAIN d) \cup {k} |-> IF x = k THEN v ELSE d[x]]

EmptyDict == [x \in {} |-> 0]

\* The value of get_weather on a response that is not 200: Python's None,
\* kept apart from every JSON object.
NoneRes == [None |-> TRUE]

(***************************************************************************)
(* Drawing.  A canvas is [width, height, ops]: its size and the drawing    *)
(* operations applied to it so far, in order.  Text positions that depend  *)
(* on font metrics (font.getsize) are not computed.                        *)
(***************************************************************************)
NewCanvas(w, h) == [width |-> w, height |-> h, ops |-> <<>>]

Draw(canvas, op) == [canvas EXCEPT !.ops = Append(@, op)]

Text(what, fill) == [kind |-> "text", what |-> what, fill |-> fill]

Rectangle(x0, y0, x1, y1, fill) ==
  [kind |-> "rectangle", x0 |-> x0, y0 |-> y0, x1 |-> x1, y1 |-> y1, fill |-> fill]

\* what is "icon" or "tile": the sort of image pasted.
Paste(what, image, x, y, mask) ==
  [kind |-> "paste", what |-> what, image |-> image, x |-> x, y |-> y,
   mask |-> mask]

\* What a helper hands back: the exception it raised ("" when none), the
\* canvas as it left it, and its return value.
Result(e, canvas, ret) == [err |-> e, canvas |-> canvas, ret |-> ret]

(***************************************************************************)
(* show_current_weather (lines 67-90).                                     *)
(***************************************************************************)
\* The four metric lines, in the order the code draws them.
metric_keys == <<"pressure", "windSpeed", "visibility", "ozone">>

RECURSIVE show_metrics(_, _, _, _)
show_metrics(canvas, data_point, offset, n) ==
  IF n > Len(metric_keys) THEN Result("", canvas, offset + 10)
  ELSE IF ~HasKey(data_point, metric_keys[n]) THEN Result("KeyError", canvas, 0)
  ELSE show_metrics(Draw(canvas, Text(metric_keys[n], BLACK)), data_point,
                    offset + LARGE_FONT_SIZE, n + 1)

show_current_weather(canvas, data_point, h_offset) ==
  IF ~HasKey(data_point, "summary") THEN Result("KeyError", canvas, 0)
  ELSE show_metrics(Draw(canvas, Text("summary", RED)), data_point,
                    h_offset + SUMMARY_H, 1)

(***************************************************************************)
(* show_current_weather_icon (lines 92-103).                               *)
(***************************************************************************)
\* Line 102: the x of the pasted icon.  icon_image is the module-level
\* variable the loading loop assigned last.
icon_bar_x(WIDTH, icons, icon_name, icon_image) ==
  int_div(WIDTH - icon_image.width, 2)

\* Line 102 pasting the image loaded last.
icon_bar_paste_last(icons, masks, icon_name, icon_image, x, y) ==
  Paste("icon", icon_image, x, y, masks[icon_image.name])

\* Line 102: the paste itself.
icon_bar_paste(icons, masks, icon_name, icon_image, x, y) ==
  Paste("icon", icons[icon_name], x, y, masks[icon_name])

\* Line 103.
icon_bar_return(icons, icon_name, icon_image, h_offset) ==
  h_offset + icons[icon_name].height

show_current_weather_icon(canvas, data_point, WIDTH, icons, masks, icon_image, h_offset) ==
  IF ~HasKey(data_point, "temperature") \/ ~HasKey(data_point, "apparentTemperature")
  THEN Result("KeyError", canvas, 0)
  ELSE IF ~HasKey(data_point, "icon") THEN Result("KeyError", canvas, 0)
  ELSE
    LET icon_name == lookup_icon(data_point["icon"])
    IN  IF ~HasKey(icons, icon_name) THEN Result("KeyError", canvas, 0)
        ELSE
          LET band == Draw(canvas, Rectangle(0, h_offset, WIDTH,
                                             h_offset + icons[icon_name].height, BLACK))
              left == Draw(band, Text("temperature", WHITE))
          IN  IF ~HasKey(data_point, "precipProbability")
              THEN Result("KeyError", left, 0)
              ELSE
                LET right == Draw(left, Text("precipProbability", WHITE))
                IN  IF ~HasKey(icon_image, "width")
                    THEN Result("NameError", right, 0)
                    ELSE Result("",
                           Draw(right,
                                icon_bar_paste(icons, masks, icon_name, icon_image,
                                  icon_bar_x(WIDTH, icons, icon_name, icon_image),
                                  h_offset)),
                           icon_bar_return(icons, icon_name, icon_image, h_offset))

(***************************************************************************)
(* draw_weather_tile (lines 105-116).  The tile's rows depend on the       *)
(* height of the weekday text and are not computed.                        *)
(***************************************************************************)
\* The height of the weekday text, a font metric: the row the band and the
\* icon start at.
time_text_h == "time_text_h"

\* Line 112: the band under the weekday, as wide as the tile and as high as
\* the icon.
TileBand(width, height) ==
  [kind |-> "rectangle", x0 |-> 0, y0 |-> time_text_h, x1 |-> width,
   height |-> height, fill |-> BLACK]

draw_weather_tile(tile, data_point, icons, masks, timezone) ==
  IF ~HasKey(data_point, "time") THEN Result("KeyError", tile, None)
  ELSE
    LET day == Draw(tile, Text("weekday", RED))
    IN  IF ~HasKey(data_point, "icon") THEN Result("KeyError", day, None)
        ELSE
          LET icon_name == lookup_icon(data_point["icon"])
          IN  IF ~HasKey(icons, icon_name) THEN Result("KeyError", day, None)
              ELSE
                LET band == Draw(day, TileBand(tile.width, icons[icon_name].height))
                    icon == Draw(band,
                              Paste("icon", icons[icon_name],
                                    int_div(tile.width - icons[icon_name].width, 2),
                                    time_text_h, masks[icon_name]))
                IN  IF ~HasKey(data_point, "temperatureLow")
                       \/ ~HasKey(data_point, "temperatureHigh")
                    THEN Result("KeyError", icon, None)
                    ELSE Result("", Draw(icon, Text("temperatureRange", BLACK)), None)

(***************************************************************************)
(* The inputs of a run: the API's answer, the resource directory and the   *)
(* panel.                                                                  *)
(***************************************************************************)
CurrentKeys ==
  {"summary", "pressure", "windSpeed", "visibility", "ozone", "temperature",
   "apparentTemperature", "icon", "precipProbability"}

DailyKeys == {"time", "icon", "temperatureLow", "temperatureHigh"}

\* A reading with the given keys; every value but the icon code is abstract.
Reading(keys, code) == [k \in keys |-> IF k = "icon" THEN code ELSE "value"]

\* Icon codes the API sends for the current reading and for a day: codes of
\* the table and one the table does not list.
CurrentCodes == {"clear-day", "rain", "hail"}
DayCodes == {"rain", "hail"}

Document(current, days) ==
  [currently |-> current, daily |-> [data |-> days], timezone |-> "Europe/London"]

Day(code) == Reading(DailyKeys, code)

\* Documents with every field present: three daily entries, or four.
CompleteDocuments ==
  { Document(Reading(CurrentKeys, c), <<Day(d[1]), Day(d[2]), Day(d[3])>>) :
      c \in CurrentCodes, d \in [1..FORECARST_COLUMNS -> DayCodes] }
  \cup { Document(Reading(CurrentKeys, "clear-day"),
                  <<Day("rain"), Day("rain"), Day("rain"), Day("rain")>>) }

BaseDays == <<Day("rain"), Day("rain"), Day("rain")>>
BaseDocument == Document(Reading(CurrentKeys, "clear-day"), BaseDays)

Without(d, k) == [x \in (DOMAIN d) \ {k} |-> d[x]]

\* Documents with one thing missing.
DefectiveDocuments ==
  { Without(BaseDocument, k) : k \in {"currently", "daily", "timezone"} }
  \cup { Document(Reading(CurrentKeys \ {k}, "clear-day"), BaseDays) : k \in CurrentKeys }
  \cup { Document(Reading(CurrentKeys, "clear-day"), SubSeq(BaseDays, 1, n)) : n \in 0..2 }
  \cup { Document(Reading(CurrentKeys, "clear-day"),
                  [BaseDays EXCEPT ![j] = Reading(DailyKeys \ {k}, "rain")]) :
           j \in 1..FORECARST_COLUMNS, k \in DailyKeys }
  \cup { [BaseDocument EXCEPT !.daily = Without(@, "data")] }

Documents == CompleteDocuments \cup DefectiveDocuments

StatusCodes == {200, 404, 503}

\* The body of an answer that is not 200; the code never reads it.
ErrorBody == [error |-> "unavailable"]

\* Names of the icon files the directory may hold (weather_resources/icon-<name>.png).
IconFiles == {"sun", "rain", "cloud"}

\* Sizes an icon file may have: <<width, height>>.
IconSizes == {<<64, 64>>, <<48, 52>>, <<64, 200>>}

\* Image.open(icon): the decoded bitmap, its pixels left out.
Bitmap(name, size) == [name |-> name, width |-> size[1], height |-> size[2]]

\* Every directory: some of the files, each of some size.
Directories ==
  UNION { [present -> IconSizes] : present \in SUBSET IconFiles }

Panels == { [WIDTH |-> w, HEIGHT |-> WHAT_HEIGHT] :
              w \in WHAT_WIDTH..(WHAT_WIDTH + WidthSpread) }

\* A name not yet bound (icon_image before the loop runs, img before line 142).
Undefined == [undefined |-> TRUE]

(***************************************************************************)
(* State.                                                                  *)
(***************************************************************************)
VARIABLES
  status,        \* res.status_code of the API's answer
  body,          \* res.json() of the API's answer
  directory,     \* the icon files found by glob: name -> size
  panel,         \* the panel InkyWHAT drives
  res,           \* the value of get_weather
  inky_display,  \* the driver object: WIDTH, HEIGHT, the image set, show() calls
  pending,       \* glob results the loading loop has not visited yet
  icons,         \* icons[icon_name]
  masks,         \* masks[icon_name]
  icon_image,    \* the module-level icon_image: the bitmap loaded last
  img,           \* the canvas
  used_h,        \* used_h
  tile,          \* the tile of the current loop iteration
  i,             \* the loop variable of the tile loop
  reads,         \* keys of res the script has subscripted res with
  err,           \* the exception that ended the run, "" when none
  log,           \* the steps taken, in order
  pc,            \* the statement to run next
  call           \* SpecFn: the function called, its arguments and its value

main_vars ==
  <<status, body, directory, panel, res, inky_display, pending, icons, masks,
    icon_image, img, used_h, tile, i, reads, err, log, pc>>

vars == <<main_vars, call>>

\* An exception nobody catches ends the process.
after_step_swallowed(e, next) == next

\* Where control goes after a statement: on, or out of the process when the
\* statement raised (there is no try in the script).
after_step(e, next) == IF e = "" THEN next ELSE "failed"

\* The bookkeeping every step of the script shares.
Step(name, e, next) ==
  /\ log' = Append(log, name)
  /\ err' = IF e = "" THEN err ELSE e
  /\ pc' = after_step(e, next)

InitMain ==
  /\ \/ status = 200 /\ body \in Documents
     \/ status \in StatusCodes \ {200} /\ body = ErrorBody
  /\ directory \in Directories
  /\ panel \in Panels
  /\ res = Undefined
  /\ inky_display = Undefined
  /\ pending = {}
  /\ icons = EmptyDict
  /\ masks = EmptyDict
  /\ icon_image = Undefined
  /\ img = Undefined
  /\ used_h = 0
  /\ tile = Undefined
  /\ i = 0
  /\ reads = {}
  /\ err = ""
  /\ log = <<>>
  /\ pc = "get_weather"

\* call when the script runs.
NoCall == [fn |-> "none"]

Init == InitMain /\ call = NoCall

(***************************************************************************)
(* The script (lines 119-157).                                             *)
(***************************************************************************)
\* get_weather (lines 41-46): the document on a 200, None otherwise.
get_weather(status_code, json) == IF status_code = 200 THEN json ELSE NoneRes

\* The exception res[k] raises, "" when it raises none.
Subscript(d, k) ==
  IF d = NoneRes THEN "TypeError" ELSE IF ~HasKey(d, k) THEN "KeyError" ELSE ""

\* Line 140: the mask of a loaded icon, as large as the icon; its pixels are
\* left out like the icon's.
icon_mask(source, mask) ==
  [mask_of |-> source.name, width |-> source.width, height |-> source.height,
   allowed |-> mask]

\* Line 146, rounding up.
tile_w_ceiling(WIDTH) == int_div(WIDTH + FORECARST_COLUMNS - 1, FORECARST_COLUMNS)

\* Line 146.
tile_w(WIDTH) == int_div(WIDTH, FORECARST_COLUMNS)

\* Line 147.
tile_h(HEIGHT, h) == HEIGHT - h

\* Image.new(mode, size) raises ValueError on a negative width or height.
new_image_error(w, h) == IF w < 0 \/ h < 0 THEN "ValueError" ELSE ""

\* A rotation that grows the image to hold the turned one, by a quarter turn.
rotate_quarter_expand(image, angle) ==
  [width |-> image.height, height |-> image.width, ops |-> image.ops,
   rotated |-> 90]

\* img.rotate(180): a new image of the same size.
rotate(image, angle) ==
  [width |-> image.width, height |-> image.height, ops |-> image.ops,
   rotated |-> angle]

\* Line 131.
GetWeather ==
  /\ pc = "get_weather"
  /\ res' = get_weather(status, body)
  /\ Step("get_weather", "", "InkyWHAT")
  /\ UNCHANGED <<status, body, directory, panel, inky_display, pending, icons,
                 masks, icon_image, img, used_h, tile, i, reads, call>>

\* Lines 134-136: the driver object, and the glob over the directory.
Setup ==
  /\ pc = "InkyWHAT"
  /\ inky_display' = [WIDTH |-> panel.WIDTH, HEIGHT |-> panel.HEIGHT,
                      image |-> Undefined, shows |-> 0]
  /\ pending' = DOMAIN directory
  /\ Step("InkyWHAT", "", "load_icons")
  /\ UNCHANGED <<status, body, directory, panel, res, icons, masks, icon_image,
                 img, used_h, tile, i, reads, call>>

\* Lines 136-140, one iteration: glob yields the files in no fixed order.  The
\* icon name is the part of the file name between "icon-" and ".png".
LoadIcon ==
  /\ pc = "load_icons"
  /\ \E icon_name \in pending :
       LET image == Bitmap(icon_name, directory[icon_name])
       IN  /\ icon_image' = image
           /\ icons' = SetItem(icons, icon_name, image)
           /\ masks' = SetItem(masks, icon_name,
                               icon_mask(image, {WHITE, BLACK, RED}))
           /\ pending' = pending \ {icon_name}
  /\ Step("load_icon", "", "load_icons")
  /\ UNCHANGED <<status, body, directory, panel, res, inky_display, img, used_h,
                 tile, i, reads, call>>

\* Lines 142-143, once the loop is over.
CreateCanvas ==
  /\ pc = "load_icons"
  /\ pending = {}
  /\ img' = NewCanvas(inky_display.WIDTH, inky_display.HEIGHT)
  /\ Step("new_canvas", "", "show_current_weather")
  /\ UNCHANGED <<status, body, directory, panel, res, inky_display, pending,
                 icons, masks, icon_image, used_h, tile, i, reads, call>>

\* Line 144.
ShowCurrentWeather ==
  /\ pc = "show_current_weather"
  /\ reads' = reads \cup {"currently"}
  /\ LET e == Subscript(res, "currently")
         r == IF e # "" THEN Result(e, img, 0)
              ELSE show_current_weather(img, res["currently"], 0)
     IN  /\ img' = r.canvas
         /\ used_h' = IF r.err = "" THEN r.ret ELSE used_h
         /\ Step("show_current_weather", r.err, "show_current_weather_icon")
  /\ UNCHANGED <<status, body, directory, panel, res, inky_display, pending,
                 icons, masks, icon_image, tile, i, call>>

\* Line 145.
ShowCurrentWeatherIcon ==
  /\ pc = "show_current_weather_icon"
  /\ reads' = reads \cup {"currently"}
  /\ LET e == Subscript(res, "currently")
         r == IF e # "" THEN Result(e, img, 0)
              ELSE show_current_weather_icon(img, res["currently"],
                     inky_display.WIDTH, icons, masks, icon_image, used_h)
     IN  /\ img' = r.canvas
         /\ used_h' = IF r.err = "" THEN r.ret ELSE used_h
         /\ Step("show_current_weather_icon", r.err, "tiles")
  /\ UNCHANGED <<status, body, directory, panel, res, inky_display, pending,
                 icons, masks, icon_image, tile, i, call>>

\* What evaluating the arguments of line 151 raises: res['daily']['data'][i],
\* then res['timezone'].
tile_arguments_error(d, n) ==
  IF Subscript(d, "daily") # "" THEN Subscript(d, "daily")
  ELSE IF ~HasKey(d["daily"], "data") THEN "KeyError"
  ELSE IF n >= Len(d["daily"]["data"]) THEN "IndexError"
  ELSE Subscript(d, "timezone")

\* The keys of res line 151 subscripts res with before it raises or calls.
tile_arguments_reads(d, n) ==
  IF Subscript(d, "daily") # "" \/ ~HasKey(d["daily"], "data")
     \/ n >= Len(d["daily"]["data"])
  THEN {"daily"} ELSE {"daily", "timezone"}

\* Lines 146-152, one iteration of the loop: a fresh tile, the day drawn on
\* it, the tile pasted at column i.
ForecastTile ==
  /\ pc = "tiles"
  /\ i < FORECARST_COLUMNS
  /\ LET w  == tile_w(inky_display.WIDTH)
         h  == tile_h(inky_display.HEIGHT, used_h)
         e0 == new_image_error(w, h)
         e1 == IF e0 # "" THEN e0 ELSE tile_arguments_error(res, i)
         r  == IF e1 # "" THEN Result(e1, IF e0 # "" THEN tile ELSE NewCanvas(w, h), None)
               ELSE draw_weather_tile(NewCanvas(w, h), res["daily"]["data"][i + 1],
                                      icons, masks, res["timezone"])
         next == IF i + 1 < FORECARST_COLUMNS THEN "tiles" ELSE "timestamp"
     IN  /\ tile' = r.canvas
         /\ reads' = IF e0 # "" THEN reads ELSE reads \cup tile_arguments_reads(res, i)
         /\ img' = IF r.err = "" THEN Draw(img, Paste("tile", r.canvas, i * w, used_h, None))
                   ELSE img
         /\ Step("tile", r.err, next)
         /\ i' = IF after_step(r.err, next) = "failed" THEN i ELSE i + 1
  /\ UNCHANGED <<status, body, directory, panel, res, inky_display, pending,
                 icons, masks, icon_image, used_h, call>>

\* Lines 153-155.
Timestamp ==
  /\ pc = "timestamp"
  /\ reads' = reads \cup {"timezone"}
  /\ LET e == Subscript(res, "timezone")
     IN  /\ img' = IF e = "" THEN Draw(img, Text("timestamp", RED)) ELSE img
         /\ Step("timestamp", e, "set_image")
  /\ UNCHANGED <<status, body, directory, panel, res, inky_display, pending,
                 icons, masks, icon_image, used_h, tile, i, call>>

\* Line 156.
SetImage ==
  /\ pc = "set_image"
  /\ inky_display' = [inky_display EXCEPT !.image = rotate(img, 180)]
  /\ Step("set_image", "", "show")
  /\ UNCHANGED <<status, body, directory, panel, res, pending, icons, masks,
                 icon_image, img, used_h, tile, i, reads, call>>

\* Line 157.
Show ==
  /\ pc = "show"
  /\ inky_display' = [inky_display EXCEPT !.shows = @ + 1]
  /\ Step("show", "", "done")
  /\ UNCHANGED <<status, body, directory, panel, res, pending, icons, masks,
                 icon_image, img, used_h, tile, i, reads, call>>

Next ==
  \/ GetWeather
  \/ Setup
  \/ LoadIcon
  \/ CreateCanvas
  \/ ShowCurrentWeather
  \/ ShowCurrentWeatherIcon
  \/ ForecastTile
  \/ Timestamp
  \/ SetImage
  \/ Show

Spec == Init /\ [][Next]_vars

(***************************************************************************)
(* lookup_icon and create_mask called on their own.                        *)
(***************************************************************************)
\* Every code of the table's lists.
TableCodes ==
  UNION { { icon_map[c][k] : k \in 1..Len(icon_map[c]) } : c \in DOMAIN icon_map }

\* Codes the table does not list.
UnknownCodes == {"hail", "thunderstorm", "tornado", "sun", ""}

\* Pixel values of the bitmaps tried: palette indices of the display and one
\* that is not.
PixelValues == {WHITE, BLACK, 3}

\* The bitmaps tried: every size up to MaxSide, every pixel of every value.
Bitmaps ==
  UNION { { [width |-> w, height |-> h, px |-> f] : f \in [Coords(w, h) -> PixelValues] } :
            w \in 0..MaxSide, h \in 0..MaxSide }

\* The sets of allowed palette indices tried; the first is the script's.
AllowedSets == { {WHITE, BLACK, RED}, {BLACK}, {3}, {} }

InitFn ==
  /\ status = 200
  /\ body = ErrorBody
  /\ directory = EmptyDict
  /\ panel = Undefined
  /\ res = Undefined
  /\ inky_display = Undefined
  /\ pending = {}
  /\ icons = EmptyDict
  /\ masks = EmptyDict
  /\ icon_image = Undefined
  /\ img = Undefined
  /\ used_h = 0
  /\ tile = Undefined
  /\ i = 0
  /\ reads = {}
  /\ err = ""
  /\ log = <<>>
  /\ pc = "idle"
  /\ \/ \E code \in TableCodes \cup UnknownCodes :
          call = [fn |-> "lookup_icon", icon_name |-> code, returned |-> FALSE]
     \/ \E source \in Bitmaps, mask \in AllowedSets :
          call = [fn |-> "create_mask", source |-> source, mask |-> mask,
                  returned |-> FALSE]

CallLookupIcon ==
  /\ call.fn = "lookup_icon"
  /\ ~call.returned
  /\ call' = [fn |-> "lookup_icon", icon_name |-> call.icon_name, returned |-> TRUE,
              ret |-> lookup_icon(call.icon_name)]
  /\ UNCHANGED main_vars

CallCreateMask ==
  /\ call.fn = "create_mask"
  /\ ~call.returned
  /\ call' = [fn |-> "create_mask", source |-> call.source, mask |-> call.mask,
              returned |-> TRUE, ret |-> create_mask(call.source, call.mask)]
  /\ UNCHANGED main_vars

NextFn == CallLookupIcon \/ CallCreateMask

SpecFn == InitFn /\ [][NextFn]_vars

(***************************************************************************)
(* Properties.                                                             *)
(***************************************************************************)
\* The codes of one category's list.
CodesOf(category) == { icon_map[category][k] : k \in 1..Len(icon_map[category]) }

\* The lookup_icon call has returned.
LookupReturned == call.fn = "lookup_icon" /\ call.returned

\* The create_mask call has returned.
MaskReturned == call.fn = "create_mask" /\ call.returned

\* C1: for every code that appears in a list of icon_map, lookup_icon returns
\* the category whose list holds it, and the lists of two distinct categories
\* have no code in common.
C1_LookupReturnsOwner ==
  /\ \A c1, c2 \in DOMAIN icon_map : c1 # c2 => CodesOf(c1) \cap CodesOf(c2) = {}
  /\ LookupReturned =>
       \A c \in DOMAIN icon_map :
         call.icon_name \in CodesOf(c) => call.ret = c

\* lookup_icon has returned "cloud" for the last code of the third list.
C1_Witness ==
  LookupReturned /\ call.icon_name = "partly-cloudy-night" /\ call.ret = "cloud"

\* C2: the mask create_mask returns is as wide and as high as the source, and
\* at every coordinate it is 255 when the source's palette index there is
\* allowed and 0 when it is not; so a source of allowed indices only gives a
\* mask of 255 only, and a source of no allowed index a mask of 0 only.
C2_MaskMatchesAllowed ==
  MaskReturned =>
    LET source == call.source
        ret == call.ret
        at == Coords(source.width, source.height)
    IN  /\ ret.width = source.width
        /\ ret.height = source.height
        /\ DOMAIN ret.px = at
        /\ \A c \in at : ret.px[c] = IF source.px[c] \in call.mask THEN 255 ELSE 0
        /\ (\A c \in at : source.px[c] \in call.mask) => \A c \in at : ret.px[c] = 255
        /\ (\A c \in at : source.px[c] \notin call.mask) => \A c \in at : ret.px[c] = 0

\* create_mask has returned a mask with a visible and a masked pixel, for the
\* display's palette.
C2_Witness ==
  /\ MaskReturned
  /\ call.mask = {WHITE, BLACK, RED}
  /\ \E c1, c2 \in Coords(call.source.width, call.source.height) :
       call.ret.px[c1] = 255 /\ call.ret.px[c2] = 0

\* The step of the given name has been taken and did not raise.
Completed(name) ==
  \E k \in 1..Len(log) : log[k] = name /\ (k < Len(log) \/ pc # "failed")

\* The pastes of the given sort on a canvas, in order.
Pastes(canvas, what) ==
  SelectSeq(canvas.ops, LAMBDA op : op.kind = "paste" /\ op.what = what)

\* C4: with three daily entries, the three tiles are pasted at the x-offsets
\* 0, W/3 and 2 * (W/3), W/3 being the integer quotient, each W/3 wide: no two
\* overlap, each starts where the one before ends, and the columns no tile
\* covers are the W - 3 * (W/3) < 3 rightmost ones.
C4_TileColumns ==
  (pc \in {"timestamp", "set_image", "show", "done"}) =>
    LET W == inky_display.WIDTH
        pasted == Pastes(img, "tile")
    IN  /\ Len(pasted) = FORECARST_COLUMNS
        /\ \A k \in 1..FORECARST_COLUMNS :
             /\ pasted[k].x = (k - 1) * (W \div 3)
             /\ pasted[k].image.width = W \div 3
             /\ pasted[k].x >= 0
             /\ pasted[k].x + pasted[k].image.width <= W
        /\ \A k \in 1..(FORECARST_COLUMNS - 1) :
             pasted[k].x + pasted[k].image.width = pasted[k + 1].x
        /\ W - (pasted[FORECARST_COLUMNS].x + pasted[FORECARST_COLUMNS].image.width)
             \in 0..2

\* The three tiles have been pasted on a panel whose width is no multiple of 3.
C4_Witness ==
  /\ pc = "done"
  /\ inky_display.WIDTH = WHAT_WIDTH + 1
  /\ Len(Pastes(img, "tile")) = FORECARST_COLUMNS
  /\ Len(res["daily"]["data"]) = FORECARST_COLUMNS

\* The category whose list holds a code of the table.
CategoryOf(code) == CHOOSE c \in DOMAIN icon_map : code \in CodesOf(c)

\* The last step taken.
LastStep == IF log = <<>> THEN "" ELSE log[Len(log)]

\* The vertical offset show_current_weather hands on: the header band, four
\* metric lines and the margin.
CurrentConditionsH == SUMMARY_H + 4 * LARGE_FONT_SIZE + 10

\* The daily readings of a document: all of them, or the three the script uses.
AllDays(doc) == 1..Len(doc["daily"]["data"])
UsedDays(doc) == 1..FORECARST_COLUMNS

\* The document has every field the script reads: the current reading, three
\* daily readings or more, the timezone.
FieldsPresent(doc, days(_)) ==
  /\ HasKey(doc, "currently") /\ CurrentKeys \subseteq DOMAIN doc["currently"]
  /\ HasKey(doc, "daily") /\ HasKey(doc["daily"], "data")
  /\ Len(doc["daily"]["data"]) >= FORECARST_COLUMNS
  /\ \A k \in days(doc) : DailyKeys \subseteq DOMAIN doc["daily"]["data"][k]
  /\ HasKey(doc, "timezone")

\* The icon codes of the current reading and of the given daily readings.
CodesIn(doc, days(_)) ==
  {doc["currently"]["icon"]} \cup { doc["daily"]["data"][k]["icon"] : k \in days(doc) }

\* The steps of a run that renders, in order.
FullDrawing ==
  <<"get_weather", "InkyWHAT">> \o [k \in 1..Cardinality(DOMAIN directory) |-> "load_icon"]
  \o <<"new_canvas", "show_current_weather", "show_current_weather_icon">>
  \o [k \in 1..FORECARST_COLUMNS |-> "tile"] \o <<"timestamp">>

FullRun == FullDrawing \o <<"set_image", "show">>

\* The API answers 200 with a complete document whose codes are all in the
\* table, and every category they select has an icon file.
C5_Premise ==
  /\ status = 200
  /\ FieldsPresent(body, AllDays)
  /\ CodesIn(body, AllDays) \subseteq TableCodes
  /\ \A code \in CodesIn(body, AllDays) : CategoryOf(code) \in DOMAIN directory

\* The run goes through every step without an error and renders once, a
\* canvas of the panel's size.
C5_Conclusion ==
  /\ pc # "failed"
  /\ err = ""
  /\ pc # "done" => ENABLED Next
  /\ HasKey(inky_display, "shows") => inky_display.shows <= 1
  /\ pc = "done" =>
       /\ log = FullRun
       /\ inky_display.shows = 1
       /\ inky_display.image.width = panel.WIDTH
       /\ inky_display.image.height = panel.HEIGHT

\* C5 as claimed: after a 200 with a valid current reading, at least three
\* valid daily readings and a timezone, every icon code in the table and
\* every selected category with an icon file, the run goes through fetch, icon
\* loading, current conditions, icon bar, three tiles and timestamp without
\* error and renders exactly once, a canvas of the panel's width and height.
C5_RunRendersOnce == C5_Premise => C5_Conclusion

\* The tiles have a height: the current reading's icon leaves room under the
\* current-conditions section.
C5_IconFits ==
  panel.HEIGHT - CurrentConditionsH
    - directory[CategoryOf(body["currently"]["icon"])][2] >= 0

\* C5 amended: the same, provided the icon of the current reading is no higher
\* than the panel's height less the height of the current-conditions section.
C5_RunRendersOnceWhenIconFits == (C5_Premise /\ C5_IconFits) => C5_Conclusion

\* A run on a valid document has rendered.
C5_Witness ==
  /\ C5_Premise /\ C5_IconFits
  /\ pc = "done"
  /\ inky_display.shows = 1
  /\ Len(body["daily"]["data"]) > FORECARST_COLUMNS

\* C6: after an answer that is not 200 the script reports a fetch failure
\* before it reads any field of the result.
C6_FetchFailureBeforeFieldRead ==
  (status # 200 /\ pc # "get_weather") =>
    /\ res = NoneRes
    /\ reads = {}
    /\ err \in {"", "FetchFailure"}
    /\ pc \in {"failed", "done"} => (pc = "failed" /\ err = "FetchFailure")

\* Something makes the run fail: an answer that is not 200, a missing field,
\* a code outside the table in the current or one of the three daily
\* readings, or no icon file for a selected category.
C7_RunMustFail ==
  \/ status # 200
  \/ ~FieldsPresent(body, UsedDays)
  \/ ~(CodesIn(body, UsedDays) \subseteq TableCodes)
  \/ \E code \in CodesIn(body, UsedDays) : CategoryOf(code) \notin DOMAIN directory

\* set_image or show has been called on the driver.
DriverCalled ==
  /\ HasKey(inky_display, "shows")
  /\ inky_display.image # Undefined \/ inky_display.shows > 0

\* C7: a run that fails, whatever the step, calls neither set_image nor show;
\* the driver is called only after every drawing step has completed, and show
\* is the last step of the run.
C7_NoPartialRender ==
  /\ (C7_RunMustFail \/ err # "" \/ pc = "failed") => ~DriverCalled
  /\ DriverCalled => SubSeq(log, 1, Len(FullDrawing)) = FullDrawing
  /\ (HasKey(inky_display, "shows") /\ inky_display.shows > 0) =>
       /\ inky_display.shows = 1
       /\ LastStep = "show"
       /\ pc = "done"
       /\ ~ENABLED Next

\* A run has failed on its third tile, the canvas already drawn on.
C7_Witness ==
  /\ pc = "failed"
  /\ LastStep = "tile"
  /\ i = 2
  /\ Len(img.ops) > 0
  /\ ~DriverCalled

\* C8: the icon bar pastes the bitmap and the mask of the category
\* lookup_icon gives for the current reading's code, and no other: for
\* "clear-day", those of "sun".
C8_IconBarSelectsCategory ==
  Completed("show_current_weather_icon") =>
    LET code == res["currently"]["icon"]
        pasted == Pastes(img, "icon")
    IN  /\ Len(pasted) = 1
        /\ pasted[1].image = Bitmap(CategoryOf(code), directory[CategoryOf(code)])
        /\ pasted[1].mask.mask_of = CategoryOf(code)
        /\ code = "clear-day" =>
             pasted[1].image.name = "sun" /\ pasted[1].mask.mask_of = "sun"

\* The icon bar has drawn "clear-day" although another icon was loaded last.
C8_Witness ==
  /\ Completed("show_current_weather_icon")
  /\ res["currently"]["icon"] = "clear-day"
  /\ icon_image.name # "sun"
  /\ Pastes(img, "icon")[1].image.name = "sun"

\* The icon bar was handed a reading whose code is in no list.
IconBarGivenUnknown ==
  /\ LastStep = "show_current_weather_icon"
  /\ Subscript(res, "currently") = ""
  /\ {"temperature", "apparentTemperature", "icon"} \subseteq DOMAIN res["currently"]
  /\ res["currently"]["icon"] \notin TableCodes

\* draw_weather_tile was called in the step just taken, on the n-th reading.
TileCalledOn(n) ==
  /\ LastStep = "tile"
  /\ new_image_error(tile_w(inky_display.WIDTH),
                     tile_h(inky_display.HEIGHT, used_h)) = ""
  /\ tile_arguments_error(res, n - 1) = ""

\* draw_weather_tile failed on a reading whose code is in no list.
TileGivenUnknown ==
  /\ pc = "failed"
  /\ TileCalledOn(i + 1)
  /\ {"time", "icon"} \subseteq DOMAIN res["daily"]["data"][i + 1]
  /\ res["daily"]["data"][i + 1]["icon"] \notin TableCodes

\* What C9 says of the icon bar: no match, a KeyError, nothing drawn by it.
C9_IconBar ==
  IconBarGivenUnknown =>
    /\ lookup_icon(res["currently"]["icon"]) = None
    /\ pc = "failed"
    /\ err = "KeyError"
    /\ \A k \in 1..Len(img.ops) :
         img.ops[k].kind = "text" /\ img.ops[k].fill # WHITE

\* What C9 says of a tile, but for what the tile holds: a tile that did not
\* fail had a code of the table, and on a code that is in no list there is no
\* match, a KeyError, and the tile is not pasted.
C9_Tile ==
  /\ (pc # "failed" /\ TileCalledOn(i)) =>
       res["daily"]["data"][i]["icon"] \in TableCodes
  /\ TileGivenUnknown =>
       /\ lookup_icon(res["daily"]["data"][i + 1]["icon"]) = None
       /\ err = "KeyError"
       /\ Len(Pastes(img, "tile")) = i

\* C9 as claimed: for a code in no list lookup_icon returns None, and the
\* icon bar or the tile renderer given such a reading fails when it indexes
\* the icons, having drawn no band, text or icon for that reading.
C9_UnknownCodeDrawsNothing ==
  /\ C9_IconBar
  /\ C9_Tile
  /\ TileGivenUnknown => tile.ops = <<>>

\* C9 amended: the same, but the tile renderer has drawn the weekday name
\* on its tile, and nothing else, when it fails.
C9_UnknownCodeDrawsWeekdayOnly ==
  /\ C9_IconBar
  /\ C9_Tile
  /\ TileGivenUnknown => tile.ops = <<Text("weekday", RED)>>

\* The second tile has failed on a code that is in no list.
C9_Witness ==
  /\ TileGivenUnknown
  /\ i = 1
  /\ "cloud" \in DOMAIN icons

\* C10: the icon bar pastes the selected icon at x = floor((WIDTH - the
\* selected icon's width) / 2) and y = the given offset, whichever icon was
\* loaded last, and returns the offset plus the selected icon's height.
C10_CenteredOnSelectedWidth ==
  Completed("show_current_weather_icon") =>
    LET selected == icons[CategoryOf(res["currently"]["icon"])]
        pasted == Pastes(img, "icon")
    IN  /\ Len(pasted) = 1
        /\ pasted[1].x = (inky_display.WIDTH - selected.width) \div 2
        /\ pasted[1].y = CurrentConditionsH
        /\ used_h = CurrentConditionsH + selected.height

====
